---------------------------- MODULE Spec2Model ----------------------------
(***************************************************************************)
(* Model of pg-page-viewer (app.py): the page loop of PageViewer, the      *)
(* header / line-pointer / tuple decoders over a byte cursor, and the      *)
(* free-space map classification of MapCell.                               *)
(*                                                                         *)
(* A page buffer is a record [len, bytes]: `len` is the number of bytes    *)
(* the read returned and `bytes` gives the non-zero bytes by position      *)
(* (every other position below len holds 0).  A 32-bit integer is a        *)
(* record [hi, lo] of two 16-bit limbs, so that the masks and shifts of    *)
(* the line-pointer word keep their full width.                            *)
(***************************************************************************)
EXTENDS Integers, Sequences, FiniteSets, TLC

VARIABLES
    page_file,        \* the input stream: [ended, full_pages]
    show_map,         \* PageViewer._show_map
    show_tuple_data,  \* PageViewer._show_tuple_data
    cell_size,        \* PageViewer._cell_size
    page_index,       \* show_pages: page_index
    page_bytes,       \* show_pages: page_bytes, the chunk last read
    page_data,        \* show_pages: page_data, the cursor position in page_bytes
    page_header,      \* show_pages: page_header
    line_pointers,    \* show_pages: line_pointers
    tuples,           \* show_pages: tuples
    freespace_map,    \* show_page_map: freespace_map
    output,           \* what has been printed, in order
    pc,               \* position in show_pages
    outcome,          \* how show_pages ended, as its caller sees it
    end_cause,        \* why show_pages ended
    lp_fields         \* the triple packed into the line-pointer word under test

vars == <<page_file, show_map, show_tuple_data, cell_size, page_index, page_bytes,
          page_data, page_header, line_pointers, tuples, freespace_map, output,
          pc, outcome, end_cause, lp_fields>>

-----------------------------------------------------------------------------
(* Program constants *)

PAGE_SIZE == 8192

HEADER_SIZE == 24

MAP_WIDTH == 1024

MAP_ROWS == 8

(* Bounds of the model *)

MaxPages == 1

FsWindow == 4

LpWindow == 2

MaxSlots == 2

-----------------------------------------------------------------------------
(* 32-bit words as two 16-bit limbs *)

Pow2(n) == 2 ^ n

Word(hi, lo) == [hi |-> hi, lo |-> lo]

RECURSIVE BitAnd(_, _)
BitAnd(a, b) ==
    IF a = 0 \/ b = 0 THEN 0
    ELSE (a % 2) * (b % 2) + 2 * BitAnd(a \div 2, b \div 2)

WordAnd(w, m) == Word(BitAnd(w.hi, m.hi), BitAnd(w.lo, m.lo))

WordShr(w, n) ==
    IF n >= 16 THEN Word(0, w.hi \div Pow2(n - 16))
    ELSE Word(w.hi \div Pow2(n), (w.hi % Pow2(n)) * Pow2(16 - n) + w.lo \div Pow2(n))

\* the value of a word known to fit 16 bits
WordToInt(w) == w.lo

-----------------------------------------------------------------------------
(* Page buffers and the byte cursor *)

ByteAt(page, p) == IF p \in DOMAIN page.bytes THEN page.bytes[p] ELSE 0

EmptyPage == [len |-> 0, bytes |-> <<>>]

\* bytes([next(iterable) for _ in range(n)]): n <= 0 reads nothing; a read past the
\* end raises StopIteration and leaves the iterator consumed
read_next_bytes(page, pos, n) ==
    IF n <= 0 THEN [ok |-> TRUE, bytes |-> <<>>, pos |-> pos]
    ELSE IF pos + n > page.len THEN [ok |-> FALSE, bytes |-> <<>>, pos |-> page.len]
    ELSE [ok |-> TRUE, bytes |-> [i \in 1..n |-> ByteAt(page, pos + i - 1)], pos |-> pos + n]

\* int.from_bytes(b, 'little') for up to 4 bytes
FromBytesLittle(b) ==
    LET at(i) == IF i <= Len(b) THEN b[i] ELSE 0
    IN  Word(at(3) + 256 * at(4), at(1) + 256 * at(2))

\* int.from_bytes(read_next_bytes(it, n), 'little')
ReadInt(page, pos, n) ==
    LET r == read_next_bytes(page, pos, n)
    IN  [ok |-> r.ok, val |-> FromBytesLittle(r.bytes), pos |-> r.pos]

-----------------------------------------------------------------------------
(* PageHeader *)

HexDigits == <<"0", "1", "2", "3", "4", "5", "6", "7", "8", "9", "a", "b", "c", "d", "e", "f">>

RECURSIVE HexOfInt(_)
HexOfInt(n) ==
    IF n < 16 THEN <<HexDigits[n + 1]>>
    ELSE Append(HexOfInt(n \div 16), HexDigits[(n % 16) + 1])

RECURSIVE PadHex(_)
PadHex(s) == IF Len(s) >= 4 THEN s ELSE PadHex(<<"0">> \o s)

\* hex(n): "0x" and the digits of n without leading zeros
Hex(w) ==
    <<"0", "x">> \o (IF w.hi = 0 THEN HexOfInt(w.lo)
                     ELSE HexOfInt(w.hi) \o PadHex(HexOfInt(w.lo)))

PageHeader_read_from_page_iterator(page, pos) ==
    LET lsn_lower_bit == ReadInt(page, pos, 4)
        lsn_upper_bit == ReadInt(page, lsn_lower_bit.pos, 4)
        checksum == ReadInt(page, lsn_upper_bit.pos, 2)
        flags == ReadInt(page, checksum.pos, 2)
        free_space_lower_offset == ReadInt(page, flags.pos, 2)
        free_space_upper_offset == ReadInt(page, free_space_lower_offset.pos, 2)
        special == ReadInt(page, free_space_upper_offset.pos, 2)
        page_size == ReadInt(page, special.pos, 2)
        prune_xid == ReadInt(page, page_size.pos, 4)
    IN  IF prune_xid.ok /\ page_size.ok /\ special.ok /\ free_space_upper_offset.ok
           /\ free_space_lower_offset.ok /\ flags.ok /\ checksum.ok
           /\ lsn_upper_bit.ok /\ lsn_lower_bit.ok
        THEN [ok |-> TRUE, pos |-> prune_xid.pos,
              val |-> [lsn |-> <<Hex(lsn_lower_bit.val), Hex(lsn_upper_bit.val)>>,
                       checksum |-> WordToInt(checksum.val),
                       flags |-> WordToInt(flags.val),
                       free_space_lower_offset |-> WordToInt(free_space_lower_offset.val),
                       free_space_upper_offset |-> WordToInt(free_space_upper_offset.val),
                       special |-> WordToInt(special.val),
                       page_size |-> WordToInt(page_size.val),
                       prune_xid |-> prune_xid.val]]
        ELSE [ok |-> FALSE, pos |-> page.len, val |-> <<>>]

-----------------------------------------------------------------------------
(* LinePointer *)

FlagNames == <<"UNUSED", "NORMAL", "REDIRECT", "DEAD">>

\* LinePointer.Flag(flag)
LinePointer_Flag(flag) == FlagNames[flag + 1]

LENGTH_MASK == Word(65534, 0)      \* 0xfffe0000

FLAG_MASK == Word(1, 32768)        \* 0x18000

OFFSET_MASK == Word(0, 32767)      \* 0x7fff

LinePointer_tuple_length(lp) == WordToInt(WordShr(WordAnd(lp, LENGTH_MASK), 17))

\* the flag taken from bit 15 alone
LinePointer_flag_one_bit(lp) == WordToInt(WordShr(WordAnd(lp, Word(0, 32768)), 15))

LinePointer_flag(lp) == WordToInt(WordShr(WordAnd(lp, FLAG_MASK), 15))

LinePointer_tuple_offset(lp) == WordToInt(WordAnd(lp, OFFSET_MASK))

LinePointer_read_from_page_iterator(page, pos) ==
    LET lp == ReadInt(page, pos, 4)
    IN  IF lp.ok
        THEN [ok |-> TRUE, pos |-> lp.pos,
              val |-> [tuple_length |-> LinePointer_tuple_length(lp.val),
                       tuple_offset |-> LinePointer_tuple_offset(lp.val),
                       flag |-> LinePointer_Flag(LinePointer_flag(lp.val))]]
        ELSE [ok |-> FALSE, pos |-> lp.pos, val |-> <<>>]

\* the count taken without setting the header aside
line_pointer_count_with_header(free_space_lower_offset) == free_space_lower_offset \div 4

\* (free_space_lower_offset - 24) // 4
line_pointer_count(free_space_lower_offset) == (free_space_lower_offset - HEADER_SIZE) \div 4

\* [cls.read_from_page_iterator(page_iterator) for _ in range(count)]
RECURSIVE ReadLinePointers(_, _, _)
ReadLinePointers(page, pos, count) ==
    IF count <= 0 THEN [ok |-> TRUE, pos |-> pos, val |-> <<>>]
    ELSE LET first == LinePointer_read_from_page_iterator(page, pos)
         IN  IF ~first.ok THEN [ok |-> FALSE, pos |-> first.pos, val |-> <<>>]
             ELSE LET rest == ReadLinePointers(page, first.pos, count - 1)
                  IN  IF ~rest.ok THEN rest
                      ELSE [ok |-> TRUE, pos |-> rest.pos, val |-> <<first.val>> \o rest.val]

LinePointer_read_all_from_page_iterator(page, pos, free_space_lower_offset) ==
    ReadLinePointers(page, pos, line_pointer_count(free_space_lower_offset))

-----------------------------------------------------------------------------
(* TupleData *)

INFOMASK2_MASK == 63488            \* 0xf800

\* the payload taken as long as the whole tuple
DataLengthWhole(tuple_length, header_offset) == tuple_length

\* the length of the payload read after the fixed fields
DataLength(tuple_length, header_offset) == tuple_length - header_offset

TupleData_read_from_page_iterator(page, pos, tuple_offset, tuple_length) ==
    LET t_xmin == ReadInt(page, pos, 4)
        t_xmax == ReadInt(page, t_xmin.pos, 4)
        cid == ReadInt(page, t_xmax.pos, 4)
        ctid_lower_bit == ReadInt(page, cid.pos, 4)
        ctid_upper_bit == ReadInt(page, ctid_lower_bit.pos, 2)
        infomask2 == ReadInt(page, ctid_upper_bit.pos, 2)
        infomask == ReadInt(page, infomask2.pos, 2)
        header_offset == ReadInt(page, infomask.pos, 2)
        data == read_next_bytes(page, header_offset.pos,
                                DataLength(tuple_length, WordToInt(header_offset.val)))
    IN  IF header_offset.ok /\ infomask.ok /\ infomask2.ok /\ ctid_upper_bit.ok
           /\ ctid_lower_bit.ok /\ cid.ok /\ t_xmax.ok /\ t_xmin.ok /\ data.ok
        THEN [ok |-> TRUE,
              val |-> [offset |-> tuple_offset,
                       length |-> tuple_length,
                       t_xmin |-> t_xmin.val,
                       t_xmax |-> t_xmax.val,
                       cid |-> cid.val,
                       ctid |-> <<ctid_lower_bit.val, WordToInt(ctid_upper_bit.val)>>,
                       infomask2 |-> BitAnd(WordToInt(infomask2.val), INFOMASK2_MASK),
                       infomask |-> WordToInt(infomask.val),
                       header_offset |-> WordToInt(header_offset.val),
                       data |-> data.bytes]]
        ELSE [ok |-> FALSE, val |-> <<>>]

\* sorted(tuple_offsets, key=lambda x: x[0]): stable, ascending by the first component
RECURSIVE InsertByOffset(_, _)
InsertByOffset(sorted, x) ==
    IF sorted = <<>> THEN <<x>>
    ELSE IF sorted[Len(sorted)][1] <= x[1] THEN Append(sorted, x)
    ELSE Append(InsertByOffset(SubSeq(sorted, 1, Len(sorted) - 1), x), sorted[Len(sorted)])

RECURSIVE SortedFrom(_, _)
SortedFrom(done, rest) ==
    IF rest = <<>> THEN done
    ELSE SortedFrom(InsertByOffset(done, rest[1]), Tail(rest))

\* the pairs left in slot order
Unsorted(tuple_offsets) == tuple_offsets

SortedByOffset(tuple_offsets) == SortedFrom(<<>>, tuple_offsets)

\* iter(page_data[tuple_offset:]): a fresh cursor, already at the end when the
\* offset lies past the page
SliceStart(page, tuple_offset) == IF tuple_offset > page.len THEN page.len ELSE tuple_offset

RECURSIVE ReadTuples(_, _)
ReadTuples(page, ordered) ==
    IF ordered = <<>> THEN [ok |-> TRUE, val |-> <<>>]
    ELSE LET first == TupleData_read_from_page_iterator(
                          page, SliceStart(page, ordered[1][1]), ordered[1][1], ordered[1][2])
         IN  IF ~first.ok THEN [ok |-> FALSE, val |-> <<>>]
             ELSE LET rest == ReadTuples(page, Tail(ordered))
                  IN  IF ~rest.ok THEN rest
                      ELSE [ok |-> TRUE, val |-> <<first.val>> \o rest.val]

TupleData_read_all_from_page_data(page, tuple_offsets) ==
    ReadTuples(page, SortedByOffset(tuple_offsets))

\* show_pages: the (tuple_offset, tuple_length) of the line pointers at or after
\* free_space_upper_offset, in slot order
RECURSIVE tuple_offsets_of(_, _)
tuple_offsets_of(lps, free_space_upper_offset) ==
    IF lps = <<>> THEN <<>>
    ELSE (IF lps[1].tuple_offset >= free_space_upper_offset
          THEN <<<<lps[1].tuple_offset, lps[1].tuple_length>>>>
          ELSE <<>>) \o tuple_offsets_of(Tail(lps), free_space_upper_offset)

-----------------------------------------------------------------------------
(* MapCell *)

\* a proportion as the fraction num / den
Proportion(num, den) == [num |-> num, den |-> den]

Abs(x) == IF x < 0 THEN -x ELSE x

Rule1(fs_lower, fs_upper, cell_lower, cell_upper) == fs_lower = 0 /\ fs_upper = 0

Rule2(fs_lower, fs_upper, cell_lower, cell_upper) == cell_upper < fs_lower

\* rule 3 measured against the lower end of the free space
Rule3Lower(fs_lower, fs_upper, cell_lower, cell_upper) == cell_lower > fs_lower

Rule3(fs_lower, fs_upper, cell_lower, cell_upper) == cell_lower > fs_upper

Rule4(fs_lower, fs_upper, cell_lower, cell_upper) ==
    cell_lower > fs_lower /\ cell_upper < fs_upper

Rule5(fs_lower, fs_upper, cell_lower, cell_upper) ==
    cell_lower < fs_lower /\ fs_lower < cell_upper

Rule6(fs_lower, fs_upper, cell_lower, cell_upper) ==
    cell_lower < fs_upper /\ fs_upper < cell_upper

\* the rules whose condition the cell satisfies
RulesSatisfied(fs_lower, fs_upper, cell_lower, cell_upper) ==
    {r \in 1..6 :
        \/ r = 1 /\ Rule1(fs_lower, fs_upper, cell_lower, cell_upper)
        \/ r = 2 /\ Rule2(fs_lower, fs_upper, cell_lower, cell_upper)
        \/ r = 3 /\ Rule3(fs_lower, fs_upper, cell_lower, cell_upper)
        \/ r = 4 /\ Rule4(fs_lower, fs_upper, cell_lower, cell_upper)
        \/ r = 5 /\ Rule5(fs_lower, fs_upper, cell_lower, cell_upper)
        \/ r = 6 /\ Rule6(fs_lower, fs_upper, cell_lower, cell_upper)}

\* the cell's record carries the branch taken (rule 0: no branch, the defaults
\* set before the chain stand)
MapCell_from_free_space_limits(fs_lower, fs_upper, cell_lower, cell_upper, size) ==
    IF Rule1(fs_lower, fs_upper, cell_lower, cell_upper)
    THEN [free_space_proportion |-> Proportion(0, 1), type |-> "FREE", rule |-> 1]
    ELSE IF Rule2(fs_lower, fs_upper, cell_lower, cell_upper)
    THEN [free_space_proportion |-> Proportion(1, 1),
          type |-> IF cell_upper > 24 THEN "LINE_POINTER" ELSE "HEADER", rule |-> 2]
    ELSE IF Rule3(fs_lower, fs_upper, cell_lower, cell_upper)
    THEN [free_space_proportion |-> Proportion(1, 1), type |-> "TUPLE", rule |-> 3]
    ELSE IF Rule4(fs_lower, fs_upper, cell_lower, cell_upper)
    THEN [free_space_proportion |-> Proportion(0, 1), type |-> "FREE", rule |-> 4]
    ELSE IF Rule5(fs_lower, fs_upper, cell_lower, cell_upper)
    THEN [free_space_proportion |-> Proportion(Abs(cell_lower - fs_lower), size),
          type |-> "LINE_POINTER", rule |-> 5]
    ELSE IF Rule6(fs_lower, fs_upper, cell_lower, cell_upper)
    THEN [free_space_proportion |-> Proportion(Abs(cell_lower - fs_upper), size),
          type |-> "TUPLE", rule |-> 6]
    ELSE [free_space_proportion |-> Proportion(0, 1), type |-> "FREE", rule |-> 0]

\* cell_limits of the cell at `index` (counted from 0)
CellLower(index, size) == index * size

CellUpper(index, size) == (index + 1) * size - 1

freespace_bar_length(size) == MAP_WIDTH \div size

\* show_page_map: freespace_map, one cell per index in range(bar_length * 8)
BuildMap(header, size) ==
    [i \in 1..(freespace_bar_length(size) * MAP_ROWS) |->
        MapCell_from_free_space_limits(header.free_space_lower_offset,
                                       header.free_space_upper_offset,
                                       CellLower(i - 1, size), CellUpper(i - 1, size), size)]

-----------------------------------------------------------------------------
(* Inputs: page buffers as the stream may hold them *)

WordShl(w, n) ==
    IF n >= 16 THEN Word((w.lo * Pow2(n - 16)) % 65536, 0)
    ELSE Word((w.hi * Pow2(n) + w.lo \div Pow2(16 - n)) % 65536, (w.lo * Pow2(n)) % 65536)

RECURSIVE BitOr(_, _)
BitOr(a, b) ==
    IF a = 0 THEN b
    ELSE IF b = 0 THEN a
    ELSE (IF a % 2 = 1 \/ b % 2 = 1 THEN 1 ELSE 0) + 2 * BitOr(a \div 2, b \div 2)

WordOr(a, b) == Word(BitOr(a.hi, b.hi), BitOr(a.lo, b.lo))

\* (tuple_length << 17) | (flag << 15) | tuple_offset
PackLinePointer(tuple_length, flag, tuple_offset) ==
    WordOr(WordOr(WordShl(Word(0, tuple_length), 17), WordShl(Word(0, flag), 15)),
           Word(0, tuple_offset))

\* w.to_bytes(4, 'little')
ToBytesLittle(w) == <<w.lo % 256, w.lo \div 256, w.hi % 256, w.hi \div 256>>

\* the bytes b laid at position pos
Place(pos, b) == [p \in pos..(pos + Len(b) - 1) |-> b[p - pos + 1]]

Int16Bytes(n) == <<n % 256, n \div 256>>

HeaderImage(fs_lower, fs_upper) ==
    Place(0, ToBytesLittle(Word(1, 43981))) @@ Place(4, ToBytesLittle(Word(0, 7)))
    @@ Place(8, Int16Bytes(0)) @@ Place(10, Int16Bytes(4))
    @@ Place(12, Int16Bytes(fs_lower)) @@ Place(14, Int16Bytes(fs_upper))
    @@ Place(16, Int16Bytes(PAGE_SIZE)) @@ Place(18, Int16Bytes(8196))
    @@ Place(20, ToBytesLittle(Word(0, 0)))

RECURSIVE SlotImage(_, _)
SlotImage(slots, k) ==
    IF k > Len(slots) THEN <<>>
    ELSE Place(HEADER_SIZE + 4 * (k - 1),
               ToBytesLittle(PackLinePointer(slots[k][1], slots[k][2], slots[k][3])))
         @@ SlotImage(slots, k + 1)

\* a tuple image: the fixed fields, header_offset, and a payload of distinct bytes
TupleImage(at, header_offset) ==
    Place(at, ToBytesLittle(Word(0, 700))) @@ Place(at + 4, ToBytesLittle(Word(0, 0)))
    @@ Place(at + 8, ToBytesLittle(Word(0, 1))) @@ Place(at + 12, ToBytesLittle(Word(0, 0)))
    @@ Place(at + 16, Int16Bytes(1)) @@ Place(at + 18, Int16Bytes(10243))
    @@ Place(at + 20, Int16Bytes(2306)) @@ Place(at + 22, Int16Bytes(header_offset))
    @@ [p \in (at + 24)..(at + 31) |-> 161 + (p - at - 24)]

SiteHeaderOffset(at) == IF at = 8140 THEN 26 ELSE 24

TupleImages ==
    TupleImage(8100, SiteHeaderOffset(8100)) @@ TupleImage(8140, SiteHeaderOffset(8140))
    @@ TupleImage(8180, SiteHeaderOffset(8180))

\* a line pointer as (tuple_length, flag, tuple_offset)
SlotChoices == {<<28, 1, 8140>>, <<20, 3, 8100>>, <<40, 1, 8180>>}

RECURSIVE SlotSeqs(_)
SlotSeqs(n) ==
    IF n = 0 THEN {<<>>}
    ELSE {Append(s, c) : s \in SlotSeqs(n - 1), c \in SlotChoices}

FsLowerChoices == {0, 26} \cup {HEADER_SIZE + 4 * k : k \in 0..MaxSlots}

FsUpperChoices == {0, 8140, PAGE_SIZE}

ShortLens == {1, 30, 8150}

\* the non-zero bytes among the first len bytes of the image
Truncated(image, len) == [p \in {q \in DOMAIN image : q < len /\ image[q] # 0} |-> image[p]]

MakePage(len, fs_lower, fs_upper, slots) ==
    [len |-> len,
     bytes |-> Truncated(HeaderImage(fs_lower, fs_upper) @@ SlotImage(slots, 1) @@ TupleImages,
                         len)]

PageContents ==
    {<<fs_lower, fs_upper, slots>> :
        fs_lower \in FsLowerChoices, fs_upper \in FsUpperChoices, slots \in SlotSeqs(MaxSlots)}

FullPages == {MakePage(PAGE_SIZE, c[1], c[2], c[3]) : c \in PageContents}

ShortPages == {MakePage(len, c[1], c[2], c[3]) : len \in ShortLens, c \in PageContents}

-----------------------------------------------------------------------------
(* PageViewer.show_pages *)

NoHeader == <<>>

\* a loop that goes on only for chunks of a whole page
FullChunk(chunk) == chunk.len = PAGE_SIZE

\* the loop condition: the chunk is truthy when it holds at least one byte
LoopContinues(chunk) == chunk.len > 0

\* except StopIteration: pass
ExceptStopIteration == "returned"

\* what file.read(8192) may return next
NextChunks ==
    IF page_file.ended THEN {EmptyPage}
    ELSE (IF page_file.full_pages < MaxPages THEN FullPages ELSE {})
         \cup ShortPages \cup {EmptyPage}

Emitted(kind) == [kind |-> kind, page |-> page_index]

\* the cell sizes the viewer is run with
ViewerCellSizes == {8, 512}

Init ==
    /\ page_file = [ended |-> FALSE, full_pages |-> 0]
    /\ show_map \in BOOLEAN
    /\ show_tuple_data \in BOOLEAN
    /\ cell_size \in ViewerCellSizes
    /\ page_index = 0
    /\ page_bytes = EmptyPage
    /\ page_data = 0
    /\ page_header = NoHeader
    /\ line_pointers = <<>>
    /\ tuples = <<>>
    /\ freespace_map = <<>>
    /\ output = <<>>
    /\ pc = "read"
    /\ outcome = "running"
    /\ end_cause = "none"
    /\ lp_fields = <<>>

\* while page_bytes := bytes(self._page_file.read(8192)): ... print(PAGE: index)
ReadPage ==
    /\ pc = "read"
    /\ \E chunk \in NextChunks :
        /\ page_bytes' = chunk
        /\ page_file' = [ended |-> chunk.len < PAGE_SIZE,
                         full_pages |-> page_file.full_pages
                                        + (IF chunk.len = PAGE_SIZE THEN 1 ELSE 0)]
        /\ IF LoopContinues(chunk)
           THEN /\ output' = Append(output, Emitted("index"))
                /\ pc' = "header"
                /\ UNCHANGED <<outcome, end_cause>>
           ELSE /\ pc' = "done"
                /\ outcome' = "returned"
                /\ end_cause' = "eof"
                /\ UNCHANGED output
    /\ page_data' = 0
    /\ UNCHANGED <<show_map, show_tuple_data, cell_size, page_index, page_header,
                   line_pointers, tuples, freespace_map, lp_fields>>

DecodeHeader ==
    /\ pc = "header"
    /\ LET r == PageHeader_read_from_page_iterator(page_bytes, page_data)
       IN  /\ page_data' = r.pos
           /\ IF r.ok
              THEN /\ page_header' = r.val
                   /\ pc' = "line_pointers"
                   /\ UNCHANGED <<outcome, end_cause>>
              ELSE /\ pc' = "done"
                   /\ outcome' = ExceptStopIteration
                   /\ end_cause' = "exhausted_header"
                   /\ UNCHANGED page_header
    /\ UNCHANGED <<page_file, show_map, show_tuple_data, cell_size, page_index, page_bytes,
                   line_pointers, tuples, freespace_map, output, lp_fields>>

DecodeLinePointers ==
    /\ pc = "line_pointers"
    /\ LET r == LinePointer_read_all_from_page_iterator(
                    page_bytes, page_data, page_header.free_space_lower_offset)
       IN  /\ page_data' = r.pos
           /\ IF r.ok
              THEN /\ line_pointers' = r.val
                   /\ pc' = "tuples"
                   /\ UNCHANGED <<outcome, end_cause>>
              ELSE /\ pc' = "done"
                   /\ outcome' = ExceptStopIteration
                   /\ end_cause' = "exhausted_line_pointers"
                   /\ UNCHANGED line_pointers
    /\ UNCHANGED <<page_file, show_map, show_tuple_data, cell_size, page_index, page_bytes,
                   page_header, tuples, freespace_map, output, lp_fields>>

DecodeTuples ==
    /\ pc = "tuples"
    /\ LET tuple_offsets == tuple_offsets_of(line_pointers, page_header.free_space_upper_offset)
           r == TupleData_read_all_from_page_data(page_bytes, tuple_offsets)
       IN  IF r.ok
           THEN /\ tuples' = r.val
                /\ pc' = "show_map"
                /\ UNCHANGED <<outcome, end_cause>>
           ELSE /\ pc' = "done"
                /\ outcome' = ExceptStopIteration
                /\ end_cause' = "exhausted_tuples"
                /\ UNCHANGED tuples
    /\ UNCHANGED <<page_file, show_map, show_tuple_data, cell_size, page_index, page_bytes,
                   page_data, page_header, line_pointers, freespace_map, output, lp_fields>>

\* if self._show_map: self.show_page_map(page_header=page_header)
ShowMap ==
    /\ pc = "show_map"
    /\ IF show_map
       THEN /\ freespace_map' = BuildMap(page_header, cell_size)
            /\ output' = Append(output, Emitted("map"))
       ELSE UNCHANGED <<freespace_map, output>>
    /\ pc' = "show_tuple_data"
    /\ UNCHANGED <<page_file, show_map, show_tuple_data, cell_size, page_index, page_bytes,
                   page_data, page_header, line_pointers, tuples, outcome, end_cause,
                   lp_fields>>

\* if self._show_tuple_data: the three tables; then page_index += 1 and the loop
\* goes round: every name of the page is rebound before it is read again
ShowTupleData ==
    /\ pc = "show_tuple_data"
    /\ output' = IF show_tuple_data
                 THEN output \o <<Emitted("header"), Emitted("line_pointers"), Emitted("tuples")>>
                 ELSE output
    /\ page_index' = page_index + 1
    /\ pc' = "read"
    /\ page_bytes' = EmptyPage
    /\ page_data' = 0
    /\ page_header' = NoHeader
    /\ line_pointers' = <<>>
    /\ tuples' = <<>>
    /\ freespace_map' = <<>>
    /\ UNCHANGED <<page_file, show_map, show_tuple_data, cell_size, outcome, end_cause,
                   lp_fields>>

Next ==
    \/ ReadPage
    \/ DecodeHeader
    \/ DecodeLinePointers
    \/ DecodeTuples
    \/ ShowMap
    \/ ShowTupleData

Spec == Init /\ [][Next]_vars

-----------------------------------------------------------------------------
(* show_page_map on its own: every header with 0 <= fs_lower <= fs_upper <= 8192 *)
(* drawn around the page's landmarks, and every cell size dividing 1024          *)

FsBases == {0, 24, 7998, 8190}

FsOffsets == {b + d : b \in FsBases, d \in 0..FsWindow} \cap (0..PAGE_SIZE)

CellSizes == {d \in 1..MAP_WIDTH : MAP_WIDTH % d = 0}

HeaderWith(fs_lower, fs_upper) ==
    [lsn |-> <<Hex(Word(0, 0)), Hex(Word(0, 0))>>, checksum |-> 0, flags |-> 0,
     free_space_lower_offset |-> fs_lower, free_space_upper_offset |-> fs_upper,
     special |-> PAGE_SIZE, page_size |-> 8196, prune_xid |-> Word(0, 0)]

InitMap ==
    /\ page_file = [ended |-> FALSE, full_pages |-> 0]
    /\ show_map = TRUE
    /\ show_tuple_data = FALSE
    /\ cell_size \in CellSizes
    /\ page_index = 0
    /\ page_bytes = EmptyPage
    /\ page_data = 0
    /\ \E fs_lower \in FsOffsets, fs_upper \in FsOffsets :
        /\ fs_lower <= fs_upper
        /\ page_header = HeaderWith(fs_lower, fs_upper)
    /\ line_pointers = <<>>
    /\ tuples = <<>>
    /\ freespace_map = <<>>
    /\ output = <<>>
    /\ pc = "show_map"
    /\ outcome = "running"
    /\ end_cause = "none"
    /\ lp_fields = <<>>

SpecMap == InitMap /\ [][ShowMap]_vars

-----------------------------------------------------------------------------
(* LinePointer.read_from_page_iterator on its own: a buffer holding one packed word *)

LpBases == {0, 100, 255, 500, 16383, 32765}

LpValues == {b + d : b \in LpBases, d \in 0..LpWindow} \cap (0..32767)

WordPage(w) == [len |-> 4, bytes |-> Truncated(Place(0, ToBytesLittle(w)), 4)]

InitLP ==
    /\ page_file = [ended |-> FALSE, full_pages |-> 0]
    /\ show_map = FALSE
    /\ show_tuple_data = FALSE
    /\ cell_size = 8
    /\ page_index = 0
    /\ lp_fields \in LpValues \X (0..3) \X LpValues
    /\ page_bytes = WordPage(PackLinePointer(lp_fields[1], lp_fields[2], lp_fields[3]))
    /\ page_data = 0
    /\ page_header = NoHeader
    /\ line_pointers = <<>>
    /\ tuples = <<>>
    /\ freespace_map = <<>>
    /\ output = <<>>
    /\ pc = "line_pointer"
    /\ outcome = "running"
    /\ end_cause = "none"

ReadLinePointer ==
    /\ pc = "line_pointer"
    /\ LET r == LinePointer_read_from_page_iterator(page_bytes, page_data)
       IN  /\ r.ok
           /\ line_pointers' = <<r.val>>
           /\ page_data' = r.pos
    /\ pc' = "done"
    /\ UNCHANGED <<page_file, show_map, show_tuple_data, cell_size, page_index, page_bytes,
                   page_header, tuples, freespace_map, output, outcome, end_cause, lp_fields>>

SpecLP == InitLP /\ [][ReadLinePointer]_vars

-----------------------------------------------------------------------------
(* Properties *)

Exhausted == {"exhausted_header", "exhausted_line_pointers", "exhausted_tuples"}

\* the page's decoding has gone past the line-pointer table
LinePointersRead ==
    \/ pc \in {"tuples", "show_map", "show_tuple_data"}
    \/ pc = "done" /\ end_cause \in {"exhausted_line_pointers", "exhausted_tuples"}

\* the page's tuples have been decoded and the page is still at hand
TuplesRead == pc \in {"show_map", "show_tuple_data"}

IndexItems == {i \in 1..Len(output) : output[i].kind = "index"}

\* C1: a run of show_pages that ended because a read was exhausted while decoding
\* a page's header, line pointers or a tuple does not end in the outcome of a run
\* that ended on zero bytes at a page boundary (a normal return).
C1_MidPageExhaustionSurfaced ==
    (pc = "done" /\ end_cause \in Exhausted) => outcome # "returned"

\* C2 (as claimed): a chunk of 1..8191 bytes ends the page loop as a clean end of
\* stream: no page index is emitted for it and nothing is decoded from it.
C2_ShortChunkEndsStream ==
    (page_bytes.len \in 1..(PAGE_SIZE - 1)) =>
        /\ pc = "done"
        /\ end_cause = "eof"
        /\ page_header = NoHeader
        /\ Cardinality(IndexItems) = page_index

\* C2 (amended): the page loop ends as a clean end of stream only on a read of
\* zero bytes; a chunk of 1..8192 bytes is a page: its index is emitted, and its
\* header is decoded once the cursor has passed it if it holds 24 bytes or more,
\* and the run ends exhausted in the header if it holds fewer.
C2_OnlyEmptyReadEndsStream ==
    /\ end_cause = "eof" => page_bytes.len = 0
    /\ page_bytes.len \in 1..PAGE_SIZE =>
        /\ pc # "read"
        /\ Cardinality(IndexItems) = page_index + 1
        /\ \E i \in IndexItems : output[i].page = page_index
        /\ (pc # "header" /\ page_bytes.len >= HEADER_SIZE) => page_header # NoHeader
        /\ (pc # "header" /\ page_bytes.len < HEADER_SIZE) => end_cause = "exhausted_header"

\* C2 witness: a chunk shorter than a page has been decoded in full.
C2_ShortChunkDecoded ==
    /\ page_bytes.len \in 1..(PAGE_SIZE - 1)
    /\ pc = "show_tuple_data"
    /\ Len(tuples) > 0
    /\ page_file.full_pages = 1

\* C3: every cell of the map built by show_page_map takes its type and proportion
\* from one of the six rules, never from the defaults set before the rule chain.
C3_MapRulesExhaustive ==
    \A i \in DOMAIN freespace_map : freespace_map[i].rule # 0

\* C4: on a formatted page (24 <= fs_lower <= fs_upper < 8192) every cell whose
\* first byte is at or after fs_upper is of type TUPLE, and every cell inside
\* [fs_lower, fs_upper) is FREE with proportion 0.
C4_FormattedPageCells ==
    LET fs_lower == page_header.free_space_lower_offset
        fs_upper == page_header.free_space_upper_offset
    IN  (freespace_map # <<>> /\ 24 <= fs_lower /\ fs_lower <= fs_upper /\ fs_upper < PAGE_SIZE) =>
            \A i \in DOMAIN freespace_map :
                /\ CellLower(i - 1, cell_size) >= fs_upper => freespace_map[i].type = "TUPLE"
                /\ (CellLower(i - 1, cell_size) >= fs_lower
                    /\ CellUpper(i - 1, cell_size) < fs_upper) =>
                        /\ freespace_map[i].type = "FREE"
                        /\ freespace_map[i].free_space_proportion.num = 0

\* the rules satisfied by the cell at position i of the map
CellRules(i) ==
    RulesSatisfied(page_header.free_space_lower_offset, page_header.free_space_upper_offset,
                   CellLower(i - 1, cell_size), CellUpper(i - 1, cell_size))

\* C9 (as claimed): no cell of the map satisfies the conditions of two rules.
C9_MapRulesExclusive ==
    \A i \in DOMAIN freespace_map : Cardinality(CellRules(i)) <= 1

\* C9 (amended): a cell of the map satisfies two rules only as rules 1 and 3
\* together or rules 5 and 6 together, never three; the cell is classified by the
\* first rule it satisfies in the order 1..6.
C9_MapRulesOverlapInTwoPairs ==
    \A i \in DOMAIN freespace_map :
        LET rules == CellRules(i)
        IN  /\ \/ Cardinality(rules) <= 1
               \/ rules = {1, 3}
               \/ rules = {5, 6}
            /\ rules # {} =>
                   /\ freespace_map[i].rule \in rules
                   /\ \A r \in rules : freespace_map[i].rule <= r

\* C9 witness: a map with a cell that straddles both ends of the free space, and
\* so satisfies rules 5 and 6, classified by rule 5.
C9_CellStraddlesBothEnds ==
    \E i \in DOMAIN freespace_map :
        /\ CellRules(i) = {5, 6}
        /\ freespace_map[i].type = "LINE_POINTER"

\* the number of positions of seq that hold x
Count(seq, x) == Cardinality({i \in DOMAIN seq : seq[i] = x})

\* C5: the tuples of a page are the (tuple_offset, tuple_length) pairs of the line
\* pointers with tuple_offset >= free_space_upper_offset, one tuple for each such
\* line pointer and none for the others, listed in ascending order of tuple_offset
\* whatever the order of the slots.
C5_TuplesAreQualifyingPointersByOffset ==
    TuplesRead =>
        LET fs_upper == page_header.free_space_upper_offset
            listed == [i \in DOMAIN tuples |-> <<tuples[i].offset, tuples[i].length>>]
            slots == [k \in DOMAIN line_pointers |->
                         <<line_pointers[k].tuple_offset, line_pointers[k].tuple_length>>]
            qualifying == {k \in DOMAIN line_pointers : line_pointers[k].tuple_offset >= fs_upper}
        IN  /\ \A i, j \in DOMAIN tuples : i < j => tuples[i].offset <= tuples[j].offset
            /\ Len(tuples) = Cardinality(qualifying)
            /\ \A k \in DOMAIN line_pointers :
                   Count(listed, slots[k])
                       = Cardinality({q \in qualifying : slots[q] = slots[k]})

\* C5 witness: the tuples of two qualifying line pointers that stand in descending
\* order of tuple_offset in the slot table have been decoded.
C5_TuplesReorderedFromSlots ==
    /\ TuplesRead
    /\ Len(line_pointers) >= 2
    /\ Len(tuples) = 2
    /\ line_pointers[1].tuple_offset > line_pointers[2].tuple_offset
    /\ tuples[1].offset = line_pointers[2].tuple_offset
    /\ tuples[2].offset = line_pointers[1].tuple_offset

\* C6 (as claimed): for every free_space_lower_offset that is a multiple of 4 and
\* >= 24, read_all_from_page_iterator consumes (free_space_lower_offset - 24) / 4
\* words, returns as many line pointers and leaves the cursor at
\* free_space_lower_offset.
C6_LinePointerCountExact ==
    LET fs_lower == page_header.free_space_lower_offset
    IN  (LinePointersRead /\ fs_lower % 4 = 0 /\ fs_lower >= 24) =>
            /\ end_cause # "exhausted_line_pointers"
            /\ page_data = fs_lower
            /\ 4 * Len(line_pointers) = fs_lower - 24

\* C6 (amended): the same for every free_space_lower_offset that is a multiple of
\* 4, >= 24 and not beyond the end of the page buffer; when it lies beyond the end
\* of the buffer the read is exhausted and no line pointers are returned.
C6_LinePointerCountWithinBuffer ==
    LET fs_lower == page_header.free_space_lower_offset
    IN  (LinePointersRead /\ fs_lower % 4 = 0 /\ fs_lower >= 24) =>
            IF fs_lower <= page_bytes.len
            THEN /\ end_cause # "exhausted_line_pointers"
                 /\ page_data = fs_lower
                 /\ 4 * Len(line_pointers) = fs_lower - 24
            ELSE /\ end_cause = "exhausted_line_pointers"
                 /\ line_pointers = <<>>

\* C6 witness: two line pointers have been read from a page whose
\* free_space_lower_offset is 32.
C6_TwoLinePointersRead ==
    /\ pc = "tuples"
    /\ page_header.free_space_lower_offset = 32
    /\ Len(line_pointers) = 2
    /\ page_data = 32

\* the flag's name for the values 0..3
FlagOf(n) == CASE n = 0 -> "UNUSED" [] n = 1 -> "NORMAL" [] n = 2 -> "REDIRECT" [] n = 3 -> "DEAD"

\* C7: decoding the little-endian word (tuple_length << 17) | (flag << 15) |
\* tuple_offset gives back tuple_length, tuple_offset and the flag of that value,
\* for tuple_length and tuple_offset below 2^15 and flag in 0..3; the word of
\* (100, 1, 500) decodes to tuple_length 100, NORMAL, tuple_offset 500.
C7_LinePointerRoundTrip ==
    (pc = "done" /\ lp_fields # <<>>) =>
        /\ Len(line_pointers) = 1
        /\ line_pointers[1] = [tuple_length |-> lp_fields[1],
                               tuple_offset |-> lp_fields[3],
                               flag |-> FlagOf(lp_fields[2])]
        /\ page_data = 4
        /\ lp_fields = <<100, 1, 500>> =>
               line_pointers[1] = [tuple_length |-> 100, tuple_offset |-> 500, flag |-> "NORMAL"]

\* C7 witness: the word of (100, 1, 500) has been decoded.
C7_ScenarioDecoded ==
    /\ pc = "done"
    /\ lp_fields = <<100, 1, 500>>
    /\ line_pointers = <<[tuple_length |-> 100, tuple_offset |-> 500, flag |-> "NORMAL"]>>

\* the 16-bit value at position p of the page at hand
Int16At(p) == ByteAt(page_bytes, p) + 256 * ByteAt(page_bytes, p + 1)

\* C8 (as claimed): every tuple returned has header_offset <= length, and its data
\* holds length - header_offset bytes, those that follow the 22 bytes starting at
\* tuple_offset.
C8_TupleDataWithinLength ==
    TuplesRead =>
        \A i \in DOMAIN tuples :
            /\ tuples[i].header_offset <= tuples[i].length
            /\ Len(tuples[i].data) = tuples[i].length - tuples[i].header_offset
            /\ \A k \in DOMAIN tuples[i].data :
                   tuples[i].data[k] = ByteAt(page_bytes, tuples[i].offset + 22 + k - 1)

\* C8 (amended): every tuple returned holds in data the length - header_offset
\* bytes (none when header_offset > length, which is not ruled out) that follow the
\* 24 bytes of fixed fields starting at tuple_offset, the last two of which are
\* header_offset.
C8_TupleDataAfterFixedFields ==
    TuplesRead =>
        \A i \in DOMAIN tuples :
            /\ tuples[i].header_offset = Int16At(tuples[i].offset + 22)
            /\ Len(tuples[i].data)
                   = IF tuples[i].header_offset > tuples[i].length THEN 0
                     ELSE tuples[i].length - tuples[i].header_offset
            /\ \A k \in DOMAIN tuples[i].data :
                   tuples[i].data[k] = ByteAt(page_bytes, tuples[i].offset + 24 + k - 1)

\* C8 witness: a page's tuples hold one with header_offset > length and one with
\* a payload.
C8_TuplesWithAndWithoutPayload ==
    /\ TuplesRead
    /\ \E i \in DOMAIN tuples : tuples[i].header_offset > tuples[i].length
    /\ \E i \in DOMAIN tuples : Len(tuples[i].data) > 0

\* what follows a page's index in the output
PageReports ==
    (IF show_map THEN <<"map">> ELSE <<>>)
    \o (IF show_tuple_data THEN <<"header", "line_pointers", "tuples">> ELSE <<>>)

\* C10: page indices are emitted as 0, 1, 2, ... in order, and every page index
\* emitted is followed, before the next page index or the end of the run, by the
\* map (if show_map) and then the header, line-pointer and tuple tables (if
\* show_tuple_data) of that page.
C10_PageOutputComplete ==
    \A i \in IndexItems :
        /\ output[i].page = Cardinality({j \in IndexItems : j < i})
        /\ (pc = "done" \/ \E j \in IndexItems : j > i) =>
               /\ Len(output) >= i + Len(PageReports)
               /\ \A k \in DOMAIN PageReports :
                      output[i + k] = [kind |-> PageReports[k], page |-> output[i].page]
               /\ Len(output) > i + Len(PageReports) =>
                      output[i + Len(PageReports) + 1].kind = "index"

=============================================================================
